---------------------------- MODULE Spec2Model ----------------------------
(***************************************************************************)
(* optimize_scenario of optimize.py: the mixed-integer linear program that *)
(* allocates the post-withholding shares over four sale categories and     *)
(* decides whether to move, and the handling of the solver's status.       *)
(*                                                                         *)
(* Numbers.  The program computes in floats; the model computes in exact   *)
(* fixed point, so "equal" below means equal as rationals:                 *)
(*   - tax rates and rates of return are counted in 1/RateScale (tenths):  *)
(*     11 is 1.1, 2 is 0.2; moving_costs is counted in tenths of a dollar; *)
(*   - the withholding rate is counted in 1/ShareScale (halves), and so    *)
(*     are share counts and every value the solver assigns to a variable   *)
(*     (is_moving = 1 is stored as ShareScale);                            *)
(*   - prices are in dollars * RateScale (short term) and                  *)
(*     dollars * RateScale^2 (long term), gains in dollars * RateScale^2   *)
(*     per share, and the objective in dollars * RateScale^3 * ShareScale. *)
(***************************************************************************)
EXTENDS Integers, Sequences, FiniteSets

VARIABLES
    inputs,     \* the keyword arguments of the call in progress
    pc,         \* where the call is: "called", "built", "solved", "returned", "raised"
    model,      \* the LpProblem built so far (None before construction)
    status,     \* what model.solve returned (LpStatusNotSolved before)
    values,     \* var.value() of the five variables after the solve
    results,    \* the dict optimize_scenario returns (None if it has not)
    error,      \* the args of the exception optimize_scenario raised (None if none)
    stdout,     \* what line 100 printed
    solves,     \* how many times the external solver was invoked
    previous    \* what the caller keeps of the call before this one (None if
                \* none): the rate it has raised since, and the shares that call
                \* allocated to the category taxed at that rate

vars == <<inputs, pc, model, status, values, results, error, stdout, solves, previous>>

\* Python's None, and a value that is there
None == {}
Some(x) == {x}
The(s) == CHOOSE x \in s : TRUE

----------------------------------------------------------------------------
(* Units and input values                                                  *)

RateScale  == 10
ShareScale == 2

\* rates of return: the first of main's sweep (0.80) and the tests' 1.1
LossMultiplier == 8
GainMultiplier == 11
Multipliers == {LossMultiplier, GainMultiplier}

\* alternate_investment_rate_of_return of the tests (1.1)
AlternateReturn == 11
\* share_basis_price of the tests
BasisPrice == 10
\* rsu withholding: none, or the .5 of test_tax_applied_to_shares
HalfWithholding == 1
WithholdingRates == {0, HalfWithholding}
\* federal rates of test_federal_taxes_*: .1 short term, .3 long term
FederalShortRate == 1
FederalLongRate  == 3

MaxShares      == 2      \* pre_tax_num_shares ranges over -1 .. MaxShares
MaxStateRate   == 1      \* each state rate ranges over 0 .. MaxStateRate tenths
MaxMovingCosts == 2      \* moving_costs ranges over 0 .. MaxMovingCosts tenths of a dollar

StateRates == 0 .. MaxStateRate

\* the federal rates go together: none, or those of the tests
FederalRates == { [stcg |-> 0, ltcg |-> 0],
                  [stcg |-> FederalShortRate, ltcg |-> FederalLongRate] }

ScenarioInputs ==
    { [ rate_of_return_6m  |-> r6,
        rate_of_return_12m |-> r12,
        rsu_witholding_rate |-> w,
        current_state_ltcg_tax_rate |-> cl,
        current_state_stcg_tax_rate |-> cs,
        new_state_ltcg_tax_rate |-> nl,
        new_state_stcg_tax_rate |-> ns,
        federal_ltcg_tax_rate |-> f.ltcg,
        federal_stcg_tax_rate |-> f.stcg,
        share_basis_price |-> BasisPrice,
        pre_tax_num_shares |-> n,
        alternate_investment_rate_of_return |-> AlternateReturn,
        moving_costs |-> c ] :
      r6 \in Multipliers, r12 \in Multipliers, w \in WithholdingRates,
      cl \in StateRates, cs \in StateRates, nl \in StateRates, ns \in StateRates,
      f \in FederalRates, n \in (-1) .. MaxShares, c \in 0 .. MaxMovingCosts }

\* test_short_term_favored: _create_inputs with both long-term rates at .2,
\* rate_of_return_6m = rate_of_return_12m = 1.1
ShortTermFavored ==
    [ rate_of_return_6m  |-> 11,
      rate_of_return_12m |-> 11,
      rsu_witholding_rate |-> 0,
      current_state_ltcg_tax_rate |-> 2,
      current_state_stcg_tax_rate |-> 1,
      new_state_ltcg_tax_rate |-> 2,
      new_state_stcg_tax_rate |-> 1,
      federal_ltcg_tax_rate |-> 0,
      federal_stcg_tax_rate |-> 0,
      share_basis_price |-> 10,
      pre_tax_num_shares |-> 10,
      alternate_investment_rate_of_return |-> 11,
      moving_costs |-> 10 ]

----------------------------------------------------------------------------
(* Linear expressions over the model's variables (pulp's LpAffineExpression)*)

ShareVars == {"current_state_stcg_num_shares", "current_state_ltcg_num_shares",
              "new_state_stcg_num_shares", "new_state_ltcg_num_shares"}
LpVars == ShareVars \cup {"is_moving"}
Terms  == LpVars \cup {"constant"}

Var(v)      == [t \in Terms |-> IF t = v THEN 1 ELSE 0]
Const(k)    == [t \in Terms |-> IF t = "constant" THEN k ELSE 0]
Plus(e, f)  == [t \in Terms |-> e[t] + f[t]]
Minus(e, f) == [t \in Terms |-> e[t] - f[t]]
Times(e, k) == [t \in Terms |-> e[t] * k]

\* the value of e at assignment x (x and the constant both in 1/ShareScale)
Value(e, x) ==
    e["current_state_stcg_num_shares"] * x["current_state_stcg_num_shares"]
  + e["current_state_ltcg_num_shares"] * x["current_state_ltcg_num_shares"]
  + e["new_state_stcg_num_shares"] * x["new_state_stcg_num_shares"]
  + e["new_state_ltcg_num_shares"] * x["new_state_ltcg_num_shares"]
  + e["is_moving"] * x["is_moving"]
  + e["constant"]

----------------------------------------------------------------------------
(* Model construction, lines 42-93                                         *)

\* a slip: the withholding is not taken off
post_tax_num_shares_Gross(in) == in.pre_tax_num_shares * ShareScale

\* line 42, in 1/ShareScale shares
post_tax_num_shares(in) ==
    in.pre_tax_num_shares * (ShareScale - in.rsu_witholding_rate)

\* line 57, dollars * RateScale
short_term_price(in) == in.share_basis_price * in.rate_of_return_6m
\* line 58, dollars * RateScale^2
long_term_price(in) == short_term_price(in) * in.rate_of_return_12m

\* lines 59-62, dollars * RateScale^2
current_state_stcg(in) ==
    Times(Var("current_state_stcg_num_shares"),
          short_term_price(in) * RateScale - in.share_basis_price * RateScale * RateScale)
current_state_ltcg(in) ==
    Times(Var("current_state_ltcg_num_shares"),
          long_term_price(in) - in.share_basis_price * RateScale * RateScale)
new_state_stcg(in) ==
    Times(Var("new_state_stcg_num_shares"),
          short_term_price(in) * RateScale - in.share_basis_price * RateScale * RateScale)
new_state_ltcg(in) ==
    Times(Var("new_state_ltcg_num_shares"),
          long_term_price(in) - in.share_basis_price * RateScale * RateScale)

\* lines 63-68: proceeds in dollars * RateScale, the gain in dollars * RateScale^2
current_state_short_term_proceeds(in) ==
    Times(Var("current_state_stcg_num_shares"), short_term_price(in))
\* a slip: the proceeds themselves are not taken off the reinvested amount
current_state_alternate_investment_gain_Gross(in) ==
    Times(Times(Var("current_state_stcg_num_shares"), in.share_basis_price * in.rate_of_return_6m),
          in.alternate_investment_rate_of_return)


current_state_alternate_investment_gain(in) ==
    Minus(Times(current_state_short_term_proceeds(in), in.alternate_investment_rate_of_return),
          Times(current_state_short_term_proceeds(in), RateScale))
new_state_short_term_proceeds(in) ==
    Times(Var("new_state_stcg_num_shares"), short_term_price(in))
new_state_alternate_investment_gain(in) ==
    Minus(Times(new_state_short_term_proceeds(in), in.alternate_investment_rate_of_return),
          Times(new_state_short_term_proceeds(in), RateScale))

\* lines 69-70, dollars * RateScale^2
total_capital_gains(in) ==
    Plus(Plus(Plus(Plus(Plus(current_state_stcg(in), new_state_stcg(in)),
                        current_state_ltcg(in)), new_state_ltcg(in)),
              current_state_alternate_investment_gain(in)),
         new_state_alternate_investment_gain(in))

\* line 71, dollars * RateScale^2
post_tax_capital(in) ==
    Const(post_tax_num_shares(in) * in.share_basis_price * RateScale * RateScale)

\* a slip: moving costs nothing
total_earnings_NoMovingCosts(in) ==
    Minus(Minus(Minus(Minus(Minus(Minus(Minus(
        Times(Plus(post_tax_capital(in), total_capital_gains(in)), RateScale),
        Times(current_state_stcg(in),
              in.federal_stcg_tax_rate + in.current_state_stcg_tax_rate)),
        Times(current_state_ltcg(in),
              in.federal_ltcg_tax_rate + in.current_state_ltcg_tax_rate)),
        Times(new_state_stcg(in),
              in.federal_stcg_tax_rate + in.new_state_stcg_tax_rate)),
        Times(new_state_ltcg(in),
              in.federal_ltcg_tax_rate + in.new_state_ltcg_tax_rate)),
        Times(current_state_alternate_investment_gain(in),
              in.federal_stcg_tax_rate + in.current_state_stcg_tax_rate)),
        Times(new_state_alternate_investment_gain(in),
              in.federal_stcg_tax_rate + in.new_state_stcg_tax_rate)),
        Times(Var("is_moving"), 0))

\* a slip: the alternate-investment gains are not taxed
total_earnings_UntaxedAlternate(in) ==
    Minus(Minus(Minus(Minus(Minus(Minus(Minus(
        Times(Plus(post_tax_capital(in), total_capital_gains(in)), RateScale),
        Times(current_state_stcg(in),
              in.federal_stcg_tax_rate + in.current_state_stcg_tax_rate)),
        Times(current_state_ltcg(in),
              in.federal_ltcg_tax_rate + in.current_state_ltcg_tax_rate)),
        Times(new_state_stcg(in),
              in.federal_stcg_tax_rate + in.new_state_stcg_tax_rate)),
        Times(new_state_ltcg(in),
              in.federal_ltcg_tax_rate + in.new_state_ltcg_tax_rate)),
        Times(current_state_alternate_investment_gain(in), 0)),
        Times(new_state_alternate_investment_gain(in), 0)),
        Times(Var("is_moving"), in.moving_costs * RateScale * RateScale))

\* lines 85-92, dollars * RateScale^3
total_earnings(in) ==
    Minus(Minus(Minus(Minus(Minus(Minus(Minus(
        Times(Plus(post_tax_capital(in), total_capital_gains(in)), RateScale),
        Times(current_state_stcg(in),
              in.federal_stcg_tax_rate + in.current_state_stcg_tax_rate)),
        Times(current_state_ltcg(in),
              in.federal_ltcg_tax_rate + in.current_state_ltcg_tax_rate)),
        Times(new_state_stcg(in),
              in.federal_stcg_tax_rate + in.new_state_stcg_tax_rate)),
        Times(new_state_ltcg(in),
              in.federal_ltcg_tax_rate + in.new_state_ltcg_tax_rate)),
        Times(current_state_alternate_investment_gain(in),
              in.federal_stcg_tax_rate + in.current_state_stcg_tax_rate)),
        Times(new_state_alternate_investment_gain(in),
              in.federal_stcg_tax_rate + in.new_state_stcg_tax_rate)),
        Times(Var("is_moving"), in.moving_costs * RateScale * RateScale))

\* lines 45-54 and 74-93: the LpProblem.  The variables' bounds are taken as
\* given: nothing compares upBound with lowBound.
LpProblem(in) ==
    [ lowBound  |-> 0,
      upBound   |-> post_tax_num_shares(in),
      total     |-> post_tax_num_shares(in),
      objective |-> total_earnings(in) ]

----------------------------------------------------------------------------
(* The constraints, lines 74-82, as predicates of an assignment x          *)

NewStateShares(x) == x["new_state_stcg_num_shares"] + x["new_state_ltcg_num_shares"]

\* lines 74-76
total_shares_sum(m, x) ==
    m.total = x["current_state_stcg_num_shares"] + x["current_state_ltcg_num_shares"]
            + x["new_state_stcg_num_shares"] + x["new_state_ltcg_num_shares"]

\* lines 79-80
new_state_shares_sold_dependency(m, x) ==
    x["is_moving"] <= NewStateShares(x)

\* a slip: the second coupling constraint is left out
new_state_shares_sold_flag_Omitted(m, x) == TRUE

\* lines 81-82 (both sides times ShareScale^2)
new_state_shares_sold_flag(m, x) ==
    NewStateShares(x) * ShareScale <= x["is_moving"] * m.total

\* a slip: is_moving is left continuous
WithinBounds_Continuous(m, x) ==
    /\ \A v \in ShareVars : m.lowBound <= x[v] /\ x[v] <= m.upBound
    /\ 0 <= x["is_moving"] /\ x["is_moving"] <= ShareScale

\* lines 48-54: the bounds of the five variables; is_moving (lowBound 0,
\* upBound 1) is of cat "Integer"
WithinBounds(m, x) ==
    /\ \A v \in ShareVars : m.lowBound <= x[v] /\ x[v] <= m.upBound
    /\ 0 <= x["is_moving"] /\ x["is_moving"] <= ShareScale
    /\ x["is_moving"] % ShareScale = 0



----------------------------------------------------------------------------
(* The external solver, line 98: PULP_CBC_CMD on the model.  It is taken   *)
(* to be exact: it reports Optimal with some assignment that maximises the *)
(* objective over the feasible ones, and Infeasible when there is none.    *)
(* Which maximiser it returns when several tie is its own choice.          *)
(* Assignments are searched on the grid of 1/ShareScale shares, which      *)
(* holds every vertex of the feasible region (its coordinates are 0, 1,    *)
(* total - 1 or total shares), so the grid's maximum is the program's.     *)
(* With total < 0 the upper bounds lie below the lower bounds and nothing  *)
(* is feasible; that does not rest on how the solver reads the lower       *)
(* bound, since four counts of at most total < 0 cannot add up to total.   *)

LpStatusOptimal    == 1
LpStatusNotSolved  == 0
LpStatusInfeasible == -1

LpStatus(s) ==
    CASE s = LpStatusOptimal    -> "Optimal"
      [] s = LpStatusNotSolved  -> "Not Solved"
      [] s = LpStatusInfeasible -> "Infeasible"

\* The candidates the search looks at: the share counts take the grid values
\* from their lower bound up, each limited to what the ones before it leave
\* of total, and the fourth is what total_shares_sum leaves for it (any
\* other choice breaks that constraint or a lower bound); is_moving takes
\* every grid value of [0, 1].  Feasible keeps the candidates that meet
\* every bound and every constraint.
Assignments(m) ==
    UNION { UNION { { [ current_state_stcg_num_shares |-> a,
                        current_state_ltcg_num_shares |-> b,
                        new_state_stcg_num_shares     |-> c,
                        new_state_ltcg_num_shares     |-> m.total - a - b - c,
                        is_moving                     |-> i ] :
                      c \in m.lowBound .. (m.total - a - b - m.lowBound),
                      i \in 0 .. ShareScale } :
                    b \in m.lowBound .. (m.total - a - 2 * m.lowBound) } :
            a \in m.lowBound .. m.upBound }

Feasible(m) ==
    { x \in Assignments(m) :
        /\ WithinBounds(m, x)
        /\ total_shares_sum(m, x)
        /\ new_state_shares_sold_dependency(m, x)
        /\ new_state_shares_sold_flag(m, x) }

Maximum(S) == CHOOSE v \in S : \A u \in S : u <= v

\* a slip: sense=LpMinimize
Optimal_Minimise(m) ==
    LET F     == Feasible(m)
        worst == CHOOSE v \in { Value(m.objective, x) : x \in F } :
                     \A u \in { Value(m.objective, x) : x \in F } : v <= u
    IN  { x \in F : Value(m.objective, x) = worst }

\* line 45: sense=LpMaximize
Optimal(m) ==
    LET F    == Feasible(m)
        best == Maximum({ Value(m.objective, x) : x \in F })
    IN  { x \in F : Value(m.objective, x) = best }

\* what solve leaves behind: the status, and the variables' values
Solutions(m) ==
    LET opt == Optimal(m)
    IN  IF opt = {}
          THEN { [status |-> LpStatusInfeasible, values |-> None] }
          ELSE { [status |-> LpStatusOptimal, values |-> Some(x)] : x \in opt }

----------------------------------------------------------------------------
(* The call, step by step                                                  *)

Init ==
    /\ inputs \in ScenarioInputs \cup {ShortTermFavored}
    /\ pc = "called"
    /\ model = None
    /\ status = LpStatusNotSolved
    /\ values = None
    /\ results = None
    /\ error = None
    /\ stdout = <<>>
    /\ solves = 0
    /\ previous = None

\* lines 42-93: the model is constructed; no input is rejected here
Build ==
    /\ pc = "called"
    /\ model' = Some(LpProblem(inputs))
    /\ pc' = "built"
    /\ UNCHANGED <<inputs, status, values, results, error, stdout, solves, previous>>

\* line 98: status = model.solve(PULP_CBC_CMD(msg=msg))
Solve ==
    /\ pc = "built"
    /\ solves' = solves + 1
    /\ \E s \in Solutions(The(model)) :
          /\ status' = s.status
          /\ values' = s.values
    /\ pc' = "solved"
    /\ UNCHANGED <<inputs, model, results, error, stdout, previous>>

\* A string the program builds: its text, and for an f-string the values
\* formatted into it, by the expression that names each.
Text(template, fields) == [template |-> template, fields |-> fields]

\* lines 99-101: a status other than 1 is printed, and a plain Exception
\* raised whose only argument is a fixed string
Raise ==
    /\ pc = "solved"
    /\ status # 1
    /\ stdout' = Append(stdout,
                        Text("status: {model.status}, {LpStatus[model.status]}",
                             [model_status |-> status, LpStatus |-> LpStatus(status)]))
    /\ error' = Some(Text("No solution for scenario", <<>>))
    /\ pc' = "raised"
    /\ UNCHANGED <<inputs, model, status, values, results, solves, previous>>

\* lines 111-121: the results dict (prices, the two rates of return, the
\* objective's value and every variable's value; is_moving back in units)
Results(in, m, x) ==
    [ short_term_price   |-> short_term_price(in),
      long_term_price    |-> long_term_price(in),
      rate_of_return_6m  |-> in.rate_of_return_6m,
      rate_of_return_12m |-> in.rate_of_return_12m,
      objective          |-> Value(m.objective, x),
      current_state_stcg_num_shares |-> x["current_state_stcg_num_shares"],
      current_state_ltcg_num_shares |-> x["current_state_ltcg_num_shares"],
      new_state_stcg_num_shares     |-> x["new_state_stcg_num_shares"],
      new_state_ltcg_num_shares     |-> x["new_state_ltcg_num_shares"],
      is_moving                     |-> x["is_moving"] \div ShareScale ]

\* a slip: the status is not looked at, and a variable without a value counts as 0
Return_Unchecked ==
    /\ pc = "solved"
    /\ results' = Some(Results(inputs, The(model),
                               IF values = None THEN [v \in LpVars |-> 0] ELSE The(values)))
    /\ pc' = "returned"
    /\ UNCHANGED <<inputs, model, status, values, error, stdout, solves, previous>>

Return ==
    /\ pc = "solved"
    /\ status = 1
    /\ results' = Some(Results(inputs, The(model), The(values)))
    /\ pc' = "returned"
    /\ UNCHANGED <<inputs, model, status, values, error, stdout, solves, previous>>

Next == Build \/ Solve \/ Raise \/ Return

Spec == Init /\ [][Next]_vars

----------------------------------------------------------------------------
(* A caller that, like the tests, raises one tax rate of the inputs it has *)
(* just used and calls optimize_scenario again with everything else as it  *)
(* was.                                                                    *)

StateRateKeys == {"current_state_stcg_tax_rate", "current_state_ltcg_tax_rate",
                  "new_state_stcg_tax_rate", "new_state_ltcg_tax_rate"}

\* the share count that is taxed at the rate named key
SharesTaxedAt(key) ==
    CASE key = "current_state_stcg_tax_rate" -> "current_state_stcg_num_shares"
      [] key = "current_state_ltcg_tax_rate" -> "current_state_ltcg_num_shares"
      [] key = "new_state_stcg_tax_rate"     -> "new_state_stcg_num_shares"
      [] key = "new_state_ltcg_tax_rate"     -> "new_state_ltcg_num_shares"

RaiseRate ==
    /\ pc = "returned"
    /\ previous = None
    /\ \E key \in StateRateKeys : \E rate \in StateRates :
          /\ rate > inputs[key]
          /\ inputs' = [inputs EXCEPT ![key] = rate]
          /\ previous' = Some([raised |-> key, rate |-> inputs[key],
                                shares |-> The(results)[SharesTaxedAt(key)]])
    /\ pc' = "called"
    /\ model' = None
    /\ status' = LpStatusNotSolved
    /\ values' = None
    /\ results' = None
    /\ UNCHANGED <<error, stdout, solves>>

NextRaise == Build \/ Solve \/ Raise \/ Return \/ RaiseRate

SpecRaise == Init /\ [][NextRaise]_vars

----------------------------------------------------------------------------
(* The terms the properties are stated in, computed from the inputs alone  *)

\* dollars, in the objective's unit
Dollars(n) == n * RateScale * RateScale * RateScale * ShareScale
\* the moving costs (given in tenths of a dollar), in the objective's unit
MovingCosts(in) == in.moving_costs * RateScale * RateScale * ShareScale

\* N = pre_tax_num_shares * (1 - rsu_witholding_rate), in 1/ShareScale shares
SharesAfterWithholding(in) ==
    in.pre_tax_num_shares * ShareScale - in.pre_tax_num_shares * in.rsu_witholding_rate

\* p6 * a - basis and p12 - basis, dollars * RateScale^2 per share
ShortTermGain(in) ==
    in.share_basis_price * in.rate_of_return_6m * in.alternate_investment_rate_of_return
      - in.share_basis_price * RateScale * RateScale
LongTermGain(in) ==
    in.share_basis_price * in.rate_of_return_6m * in.rate_of_return_12m
      - in.share_basis_price * RateScale * RateScale

\* the after-tax value of one share in each category, dollars * RateScale^3
PerShare(in, v) ==
    in.share_basis_price * RateScale * RateScale * RateScale +
    CASE v = "current_state_stcg_num_shares" ->
           (RateScale - in.federal_stcg_tax_rate - in.current_state_stcg_tax_rate) * ShortTermGain(in)
      [] v = "new_state_stcg_num_shares" ->
           (RateScale - in.federal_stcg_tax_rate - in.new_state_stcg_tax_rate) * ShortTermGain(in)
      [] v = "current_state_ltcg_num_shares" ->
           (RateScale - in.federal_ltcg_tax_rate - in.current_state_ltcg_tax_rate) * LongTermGain(in)
      [] v = "new_state_ltcg_num_shares" ->
           (RateScale - in.federal_ltcg_tax_rate - in.new_state_ltcg_tax_rate) * LongTermGain(in)

Larger(a, b) == IF a >= b THEN a ELSE b
BestCurrent(in) == Larger(PerShare(in, "current_state_stcg_num_shares"),
                          PerShare(in, "current_state_ltcg_num_shares"))
BestNew(in)     == Larger(PerShare(in, "new_state_stcg_num_shares"),
                          PerShare(in, "new_state_ltcg_num_shares"))

\* the pre-tax gain per share of the category taxed at the rate named key
GainTaxedAt(in, key) ==
    IF key \in {"current_state_stcg_tax_rate", "new_state_stcg_tax_rate"}
      THEN ShortTermGain(in) ELSE LongTermGain(in)

Returned == pc = "returned"
Result   == The(results)

----------------------------------------------------------------------------
(* The properties                                                          *)

\* C1  Conservation: in every returned result each of the four share counts
\* lies between 0 and N = pre_tax_num_shares * (1 - rsu_witholding_rate), and
\* the four add up to N exactly.
Conservation ==
    Returned =>
        /\ \A v \in ShareVars :
              0 <= Result[v] /\ Result[v] <= SharesAfterWithholding(inputs)
        /\ Result["current_state_stcg_num_shares"] + Result["current_state_ltcg_num_shares"]
             + Result["new_state_stcg_num_shares"] + Result["new_state_ltcg_num_shares"]
           = SharesAfterWithholding(inputs)

\* a result after withholding in which two categories share the shares
ConservationWitness ==
    /\ Returned
    /\ inputs.rsu_witholding_rate > 0
    /\ \E v, w \in ShareVars : v # w /\ Result[v] > 0 /\ Result[w] > 0

\* C2  Indicator correctness: in every returned result is_moving is 0 or 1,
\* and it is 1 exactly when the two new-state share counts add up to more
\* than 0.
IndicatorCorrectness ==
    Returned =>
        /\ Result.is_moving \in {0, 1}
        /\ Result.is_moving = 1 <=>
             Result["new_state_stcg_num_shares"] + Result["new_state_ltcg_num_shares"] > 0

\* a result that moves, with shares sold in the new state
IndicatorWitness ==
    /\ Returned
    /\ Result.is_moving = 1
    /\ Result["new_state_stcg_num_shares"] > 0

\* C3  Objective value: the returned objective equals
\* N*basis + sum over the short-term categories of shares*(p6*a - basis)*
\* (1 - federal_stcg - the state's stcg rate) + sum over the long-term
\* categories of shares*(p12 - basis)*(1 - federal_ltcg - the state's ltcg
\* rate) - moving_costs*is_moving, at the returned share counts.
ObjectiveValue ==
    Returned =>
        Result.objective =
            SharesAfterWithholding(inputs) * inputs.share_basis_price
                * RateScale * RateScale * RateScale
          + Result["current_state_stcg_num_shares"] * ShortTermGain(inputs)
              * (RateScale - inputs.federal_stcg_tax_rate - inputs.current_state_stcg_tax_rate)
          + Result["new_state_stcg_num_shares"] * ShortTermGain(inputs)
              * (RateScale - inputs.federal_stcg_tax_rate - inputs.new_state_stcg_tax_rate)
          + Result["current_state_ltcg_num_shares"] * LongTermGain(inputs)
              * (RateScale - inputs.federal_ltcg_tax_rate - inputs.current_state_ltcg_tax_rate)
          + Result["new_state_ltcg_num_shares"] * LongTermGain(inputs)
              * (RateScale - inputs.federal_ltcg_tax_rate - inputs.new_state_ltcg_tax_rate)
          - MovingCosts(inputs) * Result.is_moving

\* a result with federal tax, short-term shares sold in the new state and
\* moving costs paid
ObjectiveWitness ==
    /\ Returned
    /\ inputs.federal_stcg_tax_rate > 0
    /\ inputs.moving_costs > 0
    /\ Result.is_moving = 1
    /\ Result["new_state_stcg_num_shares"] > 0

\* C4  Relocation is decided by a cost threshold: with N >= 1 share and
\* moving_costs >= 0, moving_costs < N*(V_new - V_cur) gives is_moving = 1,
\* no current-state shares and objective N*V_new - moving_costs;
\* moving_costs > N*(V_new - V_cur) gives is_moving = 0, no new-state shares
\* and objective N*V_cur.
RelocationThreshold ==
    (Returned /\ SharesAfterWithholding(inputs) >= ShareScale /\ inputs.moving_costs >= 0) =>
        LET N         == SharesAfterWithholding(inputs)
            advantage == N * (BestNew(inputs) - BestCurrent(inputs))
        IN  /\ MovingCosts(inputs) < advantage =>
                 /\ Result.is_moving = 1
                 /\ Result["current_state_stcg_num_shares"] = 0
                 /\ Result["current_state_ltcg_num_shares"] = 0
                 /\ Result.objective = N * BestNew(inputs) - MovingCosts(inputs)
            /\ MovingCosts(inputs) > advantage =>
                 /\ Result.is_moving = 0
                 /\ Result["new_state_stcg_num_shares"] = 0
                 /\ Result["new_state_ltcg_num_shares"] = 0
                 /\ Result.objective = N * BestCurrent(inputs)

\* the new state is worth more per share, and the moving costs still keep
\* every share in the current state
RelocationWitness ==
    /\ Returned
    /\ SharesAfterWithholding(inputs) >= ShareScale
    /\ BestNew(inputs) > BestCurrent(inputs)
    /\ MovingCosts(inputs)
         > SharesAfterWithholding(inputs) * (BestNew(inputs) - BestCurrent(inputs))
    /\ Result.is_moving = 0

\* C5 as stated  Scenario 'short-term favored': all 10 shares go to
\* current-state short term, is_moving = 0, and the objective is 109.
ShortTermFavored109 ==
    (Returned /\ inputs = ShortTermFavored) =>
        /\ Result["current_state_stcg_num_shares"] = 10 * ShareScale
        /\ Result["current_state_ltcg_num_shares"] = 0
        /\ Result["new_state_stcg_num_shares"] = 0
        /\ Result["new_state_ltcg_num_shares"] = 0
        /\ Result.is_moving = 0
        /\ Result.objective = Dollars(109)

\* C5 as amended  The same allocation, with the objective
\* 10 * (10 + (12.1 - 10) * (1 - 0.1)) = 118.9: the short-term proceeds of 11
\* are reinvested at 1.1, and that gain is part of the objective.
ShortTermFavoredObjective ==
    (Returned /\ inputs = ShortTermFavored) =>
        /\ Result["current_state_stcg_num_shares"] = 10 * ShareScale
        /\ Result["current_state_ltcg_num_shares"] = 0
        /\ Result["new_state_stcg_num_shares"] = 0
        /\ Result["new_state_ltcg_num_shares"] = 0
        /\ Result.is_moving = 0
        /\ 10 * Result.objective = Dollars(1189)

\* the scenario has returned
ShortTermFavoredWitness == Returned /\ inputs = ShortTermFavored /\ previous = None

\* C6 as stated  Monotonic tax preference: after one state rate is raised
\* and nothing else changed, the category taxed at that rate gets no more
\* shares than it got before.
MonotonicTaxPreference ==
    (Returned /\ previous # None) =>
        Result[SharesTaxedAt(The(previous).raised)] <= The(previous).shares

\* C6 as amended  The same, for a category whose pre-tax gain per share is
\* positive (p6*a > basis for a short-term category, p12 > basis for a
\* long-term one).
MonotonicTaxPreferenceOnGains ==
    (Returned /\ previous # None /\ GainTaxedAt(inputs, The(previous).raised) > 0) =>
        Result[SharesTaxedAt(The(previous).raised)] <= The(previous).shares

\* the raised rate has driven shares out of a category with a gain
MonotonicWitness ==
    /\ Returned
    /\ previous # None
    /\ GainTaxedAt(inputs, The(previous).raised) > 0
    /\ Result[SharesTaxedAt(The(previous).raised)] < The(previous).shares

\* C7  A non-optimal solve is fatal and attributable: no result is returned,
\* and the error raised carries rate_of_return_6m and rate_of_return_12m.
NonOptimalAttributable ==
    (pc = "solved" /\ status # LpStatusOptimal => ~ ENABLED Return)
    /\ (pc = "raised" =>
          /\ results = None
          /\ error # None
          /\ \E f, g \in DOMAIN The(error).fields :
                /\ f # g
                /\ The(error).fields[f] = inputs.rate_of_return_6m
                /\ The(error).fields[g] = inputs.rate_of_return_12m)

\* C8  Infeasibility signalling: with a negative pre_tax_num_shares (and a
\* withholding rate below 1) the solve does not end optimal and no result
\* is ever returned.
InfeasibilitySignaling ==
    (inputs.pre_tax_num_shares < 0 /\ inputs.rsu_witholding_rate < ShareScale) =>
        /\ pc # "returned"
        /\ results = None
        /\ pc = "solved" => status # LpStatusOptimal

\* the call with a negative share count has ended in the exception
InfeasibilityWitness ==
    /\ inputs.pre_tax_num_shares < 0
    /\ pc = "raised"
    /\ error # None

\* C9  Invalid input is caught at construction: with a negative
\* post-withholding share count the solver is never invoked.
InvertedBoundsCaughtAtConstruction ==
    SharesAfterWithholding(inputs) < 0 => solves = 0

\* C10  Fractional relocation is infeasible: no feasible assignment has
\* 0 < new_state_stcg + new_state_ltcg < 1, and when 0 < N < 1 every
\* returned result has is_moving = 0 and no new-state shares.
FractionalRelocationInfeasible ==
    /\ pc = "solved" =>
          \A x \in Feasible(The(model)) :
              ~ (0 < NewStateShares(x) /\ NewStateShares(x) < ShareScale)
    /\ (Returned /\ 0 < SharesAfterWithholding(inputs)
                 /\ SharesAfterWithholding(inputs) < ShareScale) =>
          /\ Result.is_moving = 0
          /\ Result["new_state_stcg_num_shares"] = 0
          /\ Result["new_state_ltcg_num_shares"] = 0

\* half a share, free to move, and a strictly better rate in the new state
FractionalWitness ==
    /\ Returned
    /\ 0 < SharesAfterWithholding(inputs)
    /\ SharesAfterWithholding(inputs) < ShareScale
    /\ inputs.moving_costs = 0
    /\ BestNew(inputs) > BestCurrent(inputs)
    /\ Result.is_moving = 0

============================================================================
